---- MODULE Spec2Model ----
(***************************************************************************)
(* Model of obstacle_detector.py: the module-level credential check, the   *)
(* Speaker, ObstacleDetector.analyze_frame and the AssistiveAI controller  *)
(* (start, _analyze_and_speak, cleanup), run on one thread.  The           *)
(* environment supplies the wall clock, the keyboard, SIGINT               *)
(* (KeyboardInterrupt), the camera, the encoder, the remote model and the  *)
(* speech engine.                                                          *)
(***************************************************************************)
EXTENDS Integers, Sequences, FiniteSets, TLC

\* ---------------------------------------------------------------- bounds
MaxTime == 4          \* seconds of wall clock explored after the process starts
MaxInterval == 2      \* configured intervals explored: 1..MaxInterval
MaxLen == 2           \* longest remote response text explored
MaxRuns == 2          \* calls of start() explored on the one AssistiveAI instance

\* ------------------------------------------------------- program constants
OrdQ == 113           \* ord('q')
ByteMask == 256       \* waitKey(1) & 0xFF keeps the value modulo 256
NoKey == -1           \* waitKey returns -1 when no key was pressed

\* ------------------------------------------------------------- data sets
Chars == {"a", " "}
IsSpace(c) == c = " "
Texts == UNION {[1..n -> Chars] : n \in 0..MaxLen}
\* what generate_content returns: an object without text, or with a text
Responses == {[hasText |-> FALSE, text |-> <<>>]}
               \cup {[hasText |-> TRUE, text |-> t] : t \in Texts}
EnvValues == {"unset", "", "k"}
Intervals == 1..MaxInterval
KeyCodes == {NoKey, OrdQ}
\* time.time() when the process starts: far beyond any interval
Epoch == MaxInterval + 1

\* a phrase handed to Speaker.speak
Phrase(kind, body) == [kind |-> kind, body |-> body]
NoPhrase == Phrase("none", <<>>)
Sentinel == Phrase("sentinel", <<>>)          \* "No clear response from AI."
ErrorPhrase == Phrase("error", <<>>)          \* "Error analyzing the scene."
ActivatedPhrase == Phrase("activated", <<>>)  \* "Assistive AI system activated."
QuitPhrase == Phrase("quit", <<>>)            \* "Shutting down assistive AI system."
InterruptedPhrase == Phrase("interrupted", <<>>)  \* "System interrupted."

\* ------------------------------------------------------------ pure parts
\* Python truthiness of an os.getenv result
Truthy(v) == v # "unset" /\ v # ""

\* a or b or c: the first truthy operand, else the last one
OrChain(a, b, c) == IF Truthy(a) THEN a ELSE IF Truthy(b) THEN b ELSE c

\* lines 33-37 testing only for an unset variable: an empty value passes
MissingKeyOnlyUnset(key) == key = "unset"

\* lines 33-37: if not API_KEY: raise ValueError
MissingKey(key) == ~Truthy(key)

RECURSIVE LStrip(_)
LStrip(s) == IF s # <<>> /\ IsSpace(Head(s)) THEN LStrip(Tail(s)) ELSE s

RECURSIVE RStrip(_)
RStrip(s) == IF s # <<>> /\ IsSpace(s[Len(s)]) THEN RStrip(SubSeq(s, 1, Len(s) - 1)) ELSE s

\* str.strip()
Strip(s) == RStrip(LStrip(s))

\* lines 93-96 testing only that the attribute exists
ExtractTextUnchecked(r) == IF r.hasText THEN Phrase("text", Strip(r.text)) ELSE Sentinel

\* lines 93-96: hasattr(response, "text") and response.text, then strip
ExtractText(r) ==
    IF r.hasText /\ r.text # <<>> THEN Phrase("text", Strip(r.text)) ELSE Sentinel

\* lines 81-83 going on whatever cv2.imencode reported
ImencodeUnchecked(f) == TRUE

\* lines 81-83: success, encoded_img = cv2.imencode('.jpg', frame)
ImencodeSucceeds(f) == f = "good"

\* line 137: cv2.waitKey(1) & 0xFF == ord('q')
WaitKeyQuits(code) == (code % ByteMask) = OrdQ

\* line 132: current_time - last_analysis >= self.interval
Due(current_time, last, I) == current_time - last >= I

\* line 133 leaving the baseline where it was
BaselineKept(current_time, last) == last

\* line 133: last_analysis = current_time
Baseline(current_time, last) == current_time

\* an except clause that lets API errors through
CaughtOnlyValueError(exc) == exc = "ValueError"

\* line 152: except Exception (KeyboardInterrupt is not an Exception)
CaughtByException(exc) == exc # "KeyboardInterrupt"

\* the handler of line 152 falling silent
AfterAnalysisErrorSilent == "imshow"

\* lines 152-154: the handler prints the warning and speaks the error phrase
AfterAnalysisError == "speak_error"

\* speak without the enabled test and without the try
SpeakOutcomeUnguarded(en, throws) == IF throws THEN "raised" ELSE "played"

\* lines 58-63: playback only when enabled, its failure caught
SpeakOutcome(en, throws) ==
    IF en THEN (IF throws THEN "caught" ELSE "played") ELSE "console_only"

\* main() calling start() again after it returned
MainRestarts(who) == TRUE

\* lines 167-169: main() calls app.start() once
MainMayStart(who) == who = "none"

\* ------------------------------------------------------------------ state
VARIABLES
    pc,             \* position of the single thread
    API_KEY,        \* lines 28-32
    built,          \* objects constructed so far
    enabled,        \* Speaker.enabled
    interval,       \* AssistiveAI.interval
    cap,            \* AssistiveAI.cap: "none", "unopened", "open", "released"
    window,         \* whether the HighGUI window exists
    last_analysis,  \* local of start()
    frame,          \* local of start(): "none", "good", "bad" (bad: imencode fails)
    response,       \* local of analyze_frame
    result,         \* local of _analyze_and_speak
    exc,            \* exception start() is propagating, "none" if none
    now,            \* wall clock, time.time()
    keyCode,        \* key waiting for the next cv2.waitKey
    inflight,       \* generate_content calls issued and not yet finished
    said,           \* phrase printed by the step just taken, NoPhrase if none
    playback,       \* what the step just taken did with the speech engine
    runs,           \* calls of start() made so far
    caller,         \* who made the latest call of start(), "none" before the first
    g,              \* history of the current call of start()
    dispatch        \* the dispatch made by the step just taken, NoDispatch if none

vars == <<pc, API_KEY, built, enabled, interval, cap, window, last_analysis, frame,
          response, result, exc, now, keyCode, inflight, runs, caller, g, said,
          playback, dispatch>>

NoResponse == [hasText |-> FALSE, text |-> <<>>]

\* history kept for one call of start(); everCleaned is carried over from one
\* call to the next
FreshRun(old) ==
    [handleMade |-> FALSE, cleanups |-> 0, releases |-> 0, destroys |-> 0,
     banners |-> 0, exitCause |-> "none", quitSeen |-> FALSE,
     lastDispatchAt |-> 0,
     spokenSince |-> 0, callRemote |-> 0, outcome |-> "none",
     everCleaned |-> old.everCleaned]

\* outcomes of an analysis cycle that _analyze_and_speak reports as an error
Failed(outcome) == outcome \in {"encode_error", "api_error"}

\* a dispatch: whether it is the first of this call of start(), the time since
\* the previous dispatch started, and how the previous analysis went
NoDispatch == [made |-> FALSE, first |-> FALSE, gap |-> 0, prevFailed |-> FALSE]

NoHistory == [everCleaned |-> FALSE]

PreTryPcs == {"open", "isOpened", "activate"}
AnalysisPcs == {"encode", "remote", "await", "speak_result", "speak_error"}
TryPcs == {"read", "check", "imshow", "waitKey", "speak_quit"} \cup AnalysisPcs
CleanupPcs == {"cleanup_release", "cleanup_destroy", "cleanup_banner"}
StartPcs == PreTryPcs \cup TryPcs \cup {"except_kbd"} \cup CleanupPcs

Init ==
    /\ pc = "module"
    /\ API_KEY = "unset"
    /\ built = {}
    /\ enabled = FALSE
    /\ interval = 1
    /\ cap = "none"
    /\ window = FALSE
    /\ last_analysis = 0
    /\ frame = "none"
    /\ response = NoResponse
    /\ result = NoPhrase
    /\ exc = "none"
    /\ now = Epoch
    /\ keyCode = NoKey
    /\ inflight = 0
    /\ said = NoPhrase
    /\ playback = "none"
    /\ runs = 0
    /\ caller = "none"
    /\ g = FreshRun(NoHistory)
    /\ dispatch = NoDispatch

\* a step that speaks nothing
Silent == said' = NoPhrase /\ playback' = "none"

\* a step that speaks nothing and dispatches nothing
Quiet == Silent /\ dispatch' = NoDispatch

\* Speaker.speak(text), lines 55-63
Speak(text) ==
    /\ said' = text
    /\ dispatch' = NoDispatch
    /\ \E throws \in BOOLEAN : playback' = SpeakOutcome(enabled, throws)

\* lines 28-40: read the credential, refuse to start without one
LoadConfig ==
    /\ pc = "module"
    /\ \E a \in EnvValues, b \in EnvValues, c \in EnvValues :
          /\ API_KEY' = OrChain(a, b, c)
          /\ pc' = IF MissingKey(OrChain(a, b, c)) THEN "cred_error" ELSE "main"
    /\ UNCHANGED <<built, enabled, interval, cap, window, last_analysis, frame,
                   response, result, exc, now, keyCode, inflight, runs, caller, g>>
    /\ Quiet

\* line 168 with lines 102-107, 46-53 and 69-77: the three constructors
Construct ==
    /\ pc = "main"
    /\ \E I \in Intervals, initThrows \in BOOLEAN :
          /\ interval' = I
          /\ enabled' = ~initThrows
    /\ built' = {"Speaker", "ObstacleDetector", "AssistiveAI"}
    /\ cap' = "none"
    /\ pc' = "constructed"
    /\ UNCHANGED <<API_KEY, window, last_analysis, frame, response, result, exc,
                   now, keyCode, inflight, runs, caller, g>>
    /\ Quiet

\* entry of start(): a new call on the same instance
EnterStart(who) ==
    /\ runs < MaxRuns
    /\ runs' = runs + 1
    /\ caller' = who
    /\ pc' = "open"
    /\ exc' = "none"
    /\ g' = FreshRun(g)
    /\ UNCHANGED <<API_KEY, built, enabled, interval, cap, window,
                   last_analysis, frame, response, result, now, keyCode,
                   inflight>>
    /\ Quiet

\* line 169: main() calls app.start()
StartByMain ==
    /\ pc \in {"constructed", "ended"}
    /\ MainMayStart(caller)
    /\ EnterStart("main")

\* line 109 called once more on an instance whose start() has ended
StartAgain ==
    /\ pc = "ended"
    /\ EnterStart("other")

\* line 110: self.cap = cv2.VideoCapture(self.camera_id)
OpenCamera ==
    /\ pc = "open"
    /\ \E ok \in BOOLEAN : cap' = IF ok THEN "open" ELSE "unopened"
    /\ g' = [g EXCEPT !.handleMade = TRUE]
    /\ pc' = "isOpened"
    /\ UNCHANGED <<API_KEY, built, enabled, interval, window, last_analysis,
                   frame, response, result, exc, now, keyCode, inflight, runs, caller>>
    /\ Quiet

\* lines 111-113: return when the camera did not open
CheckOpened ==
    /\ pc = "isOpened"
    /\ IF cap = "open"
         THEN pc' = "activate" /\ g' = g
         ELSE pc' = "ended" /\ g' = [g EXCEPT !.exitCause = "openfail"]
    /\ UNCHANGED <<API_KEY, built, enabled, interval, cap, window,
                   last_analysis, frame, response, result, exc, now, keyCode,
                   inflight, runs, caller>>
    /\ Quiet

\* lines 115-123: banner, activation phrase, last_analysis = 0
Activate ==
    /\ pc = "activate"
    /\ Speak(ActivatedPhrase)
    /\ last_analysis' = 0
    /\ pc' = "read"
    /\ UNCHANGED <<API_KEY, built, enabled, interval, cap, window, frame,
                   response, result, exc, now, keyCode, inflight, runs, caller, g>>

\* lines 141-145: an exception leaving the try block of start()
StartRaise(e) ==
    IF e = "KeyboardInterrupt"
      THEN /\ pc' = "except_kbd"
           /\ exc' = "none"
      ELSE /\ pc' = "cleanup_release"
           /\ exc' = e

\* the exit cause recorded when a try-block exception ends the loop
CauseOf(e, h) ==
    IF h.exitCause # "none" THEN h.exitCause
    ELSE IF e = "KeyboardInterrupt" THEN "interrupt" ELSE "exception"

\* lines 148-154: an exception inside the try block of _analyze_and_speak
AnalysisRaise(e) ==
    IF CaughtByException(e)
      THEN /\ pc' = AfterAnalysisError
           /\ exc' = "none"
           /\ g' = [g EXCEPT !.outcome = IF e = "ValueError" THEN "encode_error"
                                                            ELSE "api_error"]
      ELSE /\ StartRaise(e)
           /\ g' = [g EXCEPT !.outcome = "aborted", !.exitCause = CauseOf(e, g)]

\* lines 126-129: read a frame, leave the loop when the read fails
ReadFrame ==
    /\ pc = "read"
    /\ \E ret \in BOOLEAN, encodable \in BOOLEAN :
          IF ret
            THEN /\ frame' = IF encodable THEN "good" ELSE "bad"
                 /\ pc' = "check"
                 /\ g' = g
            ELSE /\ frame' = "none"
                 /\ pc' = "cleanup_release"
                 /\ g' = [g EXCEPT !.exitCause = "readfail"]
    /\ UNCHANGED <<API_KEY, built, enabled, interval, cap, window,
                   last_analysis, response, result, exc, now, keyCode, inflight,
                   runs, caller>>
    /\ Quiet

\* the history entry of one dispatch made at time t
Dispatched(h, t) ==
    [h EXCEPT !.lastDispatchAt = t,
              !.spokenSince = 0,
              !.callRemote = 0,
              !.outcome = "pending"]

\* what is known of a dispatch made at time t after history h
DispatchAt(h, t) ==
    [made |-> TRUE,
     first |-> (h.outcome = "none"),
     gap |-> IF h.outcome = "none" THEN 0 ELSE t - h.lastDispatchAt,
     prevFailed |-> Failed(h.outcome)]

\* lines 131-134: dispatch an analysis when the interval has elapsed
CheckInterval ==
    /\ pc = "check"
    /\ LET current_time == now IN
         IF Due(current_time, last_analysis, interval)
           THEN /\ last_analysis' = Baseline(current_time, last_analysis)
                /\ pc' = "encode"
                /\ g' = Dispatched(g, current_time)
                /\ dispatch' = DispatchAt(g, current_time)
           ELSE /\ pc' = "imshow"
                /\ dispatch' = NoDispatch
                /\ UNCHANGED <<last_analysis, g>>
    /\ UNCHANGED <<API_KEY, built, enabled, interval, cap, window, frame,
                   response, result, exc, now, keyCode, inflight, runs, caller>>
    /\ Silent

\* lines 81-86: cv2.imencode, ValueError when it fails
Encode ==
    /\ pc = "encode"
    /\ IF ImencodeSucceeds(frame)
         THEN pc' = "remote" /\ UNCHANGED <<exc, g>>
         ELSE AnalysisRaise("ValueError")
    /\ UNCHANGED <<API_KEY, built, enabled, interval, cap, window,
                   last_analysis, frame, response, result, now, keyCode,
                   inflight, runs, caller>>
    /\ Quiet

\* lines 88-91: issue the one generate_content call
RemoteCall ==
    /\ pc = "remote"
    /\ inflight' = inflight + 1
    /\ g' = [g EXCEPT !.callRemote = @ + 1]
    /\ pc' = "await"
    /\ UNCHANGED <<API_KEY, built, enabled, interval, cap, window,
                   last_analysis, frame, response, result, exc, now, keyCode,
                   runs, caller>>
    /\ Quiet

\* lines 88-96 and 150: the call returns, analyze_frame returns its result
RemoteReturn ==
    /\ pc = "await"
    /\ \E r \in Responses :
          /\ response' = r
          /\ result' = ExtractText(r)
    /\ inflight' = inflight - 1
    /\ g' = [g EXCEPT !.outcome = "ok"]
    /\ pc' = "speak_result"
    /\ UNCHANGED <<API_KEY, built, enabled, interval, cap, window,
                   last_analysis, frame, exc, now, keyCode, runs, caller>>
    /\ Quiet

\* line 88: the call throws (auth, rate limit, timeout, malformed response)
RemoteThrows ==
    /\ pc = "await"
    /\ inflight' = inflight - 1
    /\ AnalysisRaise("APIError")
    /\ UNCHANGED <<API_KEY, built, enabled, interval, cap, window,
                   last_analysis, frame, response, result, now, keyCode, runs, caller>>
    /\ Quiet

\* line 151: speak the result; result and response die with the call
SpeakResult ==
    /\ pc = "speak_result"
    /\ Speak(result)
    /\ g' = [g EXCEPT !.spokenSince = @ + 1]
    /\ response' = NoResponse
    /\ result' = NoPhrase
    /\ pc' = "imshow"
    /\ UNCHANGED <<API_KEY, built, enabled, interval, cap, window,
                   last_analysis, frame, exc, now, keyCode, inflight, runs, caller>>

\* lines 153-154: warn and speak the fixed error phrase
SpeakError ==
    /\ pc = "speak_error"
    /\ Speak(ErrorPhrase)
    /\ g' = [g EXCEPT !.spokenSince = @ + 1]
    /\ pc' = "imshow"
    /\ UNCHANGED <<API_KEY, built, enabled, interval, cap, window,
                   last_analysis, frame, response, result, exc, now, keyCode,
                   inflight, runs, caller>>

\* line 136: cv2.imshow
Show ==
    /\ pc = "imshow"
    /\ window' = TRUE
    /\ pc' = "waitKey"
    /\ UNCHANGED <<API_KEY, built, enabled, interval, cap, last_analysis, frame,
                   response, result, exc, now, keyCode, inflight, runs, caller, g>>
    /\ Quiet

\* line 137: cv2.waitKey(1) & 0xFF == ord('q'); the iteration's frame is dropped
WaitKey ==
    /\ pc = "waitKey"
    /\ keyCode' = NoKey
    /\ frame' = "none"
    /\ IF WaitKeyQuits(keyCode)
         THEN pc' = "speak_quit" /\ g' = [g EXCEPT !.quitSeen = TRUE]
         ELSE pc' = "read" /\ g' = g
    /\ UNCHANGED <<API_KEY, built, enabled, interval, cap, window,
                   last_analysis, response, result, exc, now, inflight,
                   runs, caller>>
    /\ Quiet

\* lines 138-139: farewell, break
SpeakQuit ==
    /\ pc = "speak_quit"
    /\ Speak(QuitPhrase)
    /\ g' = [g EXCEPT !.exitCause = "quit"]
    /\ pc' = "cleanup_release"
    /\ UNCHANGED <<API_KEY, built, enabled, interval, cap, window,
                   last_analysis, frame, response, result, exc, now, keyCode,
                   inflight, runs, caller>>

\* lines 141-143: except KeyboardInterrupt
HandleInterrupt ==
    /\ pc = "except_kbd"
    /\ Speak(InterruptedPhrase)
    /\ pc' = "cleanup_release"
    /\ UNCHANGED <<API_KEY, built, enabled, interval, cap, window,
                   last_analysis, frame, response, result, exc, now, keyCode,
                   inflight, runs, caller, g>>

\* lines 145 and 156-158: finally calls cleanup(), which releases the camera
CleanupRelease ==
    /\ pc = "cleanup_release"
    /\ IF cap # "none"
         THEN /\ cap' = "released"
              /\ g' = [g EXCEPT !.cleanups = @ + 1, !.releases = @ + 1]
         ELSE /\ cap' = cap
              /\ g' = [g EXCEPT !.cleanups = @ + 1]
    /\ pc' = "cleanup_destroy"
    /\ UNCHANGED <<API_KEY, built, enabled, interval, window, last_analysis,
                   frame, response, result, exc, now, keyCode, inflight, runs, caller>>
    /\ Quiet

\* line 159: cv2.destroyAllWindows(); a key still waiting in the window is lost
CleanupDestroy ==
    /\ pc = "cleanup_destroy"
    /\ window' = FALSE
    /\ keyCode' = NoKey
    /\ g' = [g EXCEPT !.destroys = @ + 1]
    /\ pc' = "cleanup_banner"
    /\ UNCHANGED <<API_KEY, built, enabled, interval, cap, last_analysis, frame,
                   response, result, exc, now, inflight, runs, caller>>
    /\ Quiet

\* lines 160-162: the shutdown banner; start() is left
CleanupBanner ==
    /\ pc = "cleanup_banner"
    /\ g' = [g EXCEPT !.banners = @ + 1, !.everCleaned = TRUE]
    /\ pc' = "ended"
    /\ UNCHANGED <<API_KEY, built, enabled, interval, cap, window,
                   last_analysis, frame, response, result, exc, now, keyCode,
                   inflight, runs, caller>>
    /\ Quiet

\* SIGINT: KeyboardInterrupt raised in the thread wherever start() stands.
\* Before the try (lines 110-123) and inside finally it leaves start();
\* inside the try it reaches line 141; inside the handler it reaches finally.
KeyboardInterrupt ==
    /\ pc \in StartPcs
    /\ IF pc \in TryPcs
         THEN StartRaise("KeyboardInterrupt")
         ELSE IF pc = "except_kbd"
           THEN pc' = "cleanup_release" /\ exc' = "KeyboardInterrupt"
           ELSE pc' = "ended" /\ exc' = "KeyboardInterrupt"
    /\ inflight' = 0
    /\ g' = [g EXCEPT !.exitCause = CauseOf("KeyboardInterrupt", g),
                      !.outcome = IF pc \in AnalysisPcs THEN "aborted" ELSE @]
    /\ UNCHANGED <<API_KEY, built, enabled, interval, cap, window,
                   last_analysis, frame, response, result, now, keyCode, runs, caller>>
    /\ Quiet

\* a key pressed in the HighGUI window, delivered by the next waitKey
KeyPress ==
    /\ pc \in TryPcs
    /\ window
    /\ keyCode = NoKey
    /\ \E k \in KeyCodes \ {NoKey} : keyCode' = k
    /\ UNCHANGED <<pc, API_KEY, built, enabled, interval, cap, window,
                   last_analysis, frame, response, result, exc, now, inflight,
                   runs, caller, g>>
    /\ Quiet

\* the wall clock advances while start() runs
Tick ==
    /\ pc \in StartPcs
    /\ now < Epoch + MaxTime
    /\ now' = now + 1
    /\ UNCHANGED <<pc, API_KEY, built, enabled, interval, cap, window,
                   last_analysis, frame, response, result, exc, keyCode,
                   inflight, runs, caller, g>>
    /\ Quiet

Next ==
    \/ LoadConfig
    \/ Construct
    \/ StartByMain
    \/ OpenCamera
    \/ CheckOpened
    \/ Activate
    \/ ReadFrame
    \/ CheckInterval
    \/ Encode
    \/ RemoteCall
    \/ RemoteReturn
    \/ RemoteThrows
    \/ SpeakResult
    \/ SpeakError
    \/ Show
    \/ WaitKey
    \/ SpeakQuit
    \/ HandleInterrupt
    \/ CleanupRelease
    \/ CleanupDestroy
    \/ CleanupBanner
    \/ KeyboardInterrupt
    \/ KeyPress
    \/ Tick

\* the program as main() runs it
Spec == Init /\ [][Next]_vars

\* the same, with start() called again on the instance after it has ended
NextRestart == Next \/ StartAgain

SpecRestart == Init /\ [][NextRestart]_vars

\* ----------------------------------------------------------------- claims

\* r is t with whitespace removed from both ends and nothing else changed
IsTrimOf(r, t) ==
    \E i \in 1..(Len(t) + 1), j \in 0..Len(t) :
        /\ r = SubSeq(t, i, j)
        /\ \A k \in 1..Len(t) : (k < i \/ k > j) => IsSpace(t[k])
        /\ r # <<>> => (~IsSpace(r[1]) /\ ~IsSpace(r[Len(r)]))

\* the causes for which the Running loop may end
SessionEnds == {"readfail", "quit", "interrupt"}

\* C1: within one call of start(), every dispatch after the first is made at
\* least interval seconds after the start of the dispatch before it
C1_DispatchesAtLeastIntervalApart ==
    (dispatch.made /\ ~dispatch.first) => dispatch.gap >= interval

\* a second dispatch exactly one interval after the start of a failed one
C1_Witness ==
    /\ dispatch.made
    /\ ~dispatch.first
    /\ dispatch.prevFailed
    /\ dispatch.gap = interval

\* C2: a failed analysis is caught, the error phrase is spoken once, the loop
\* goes on to the display and the next read, and the loop ends only by a
\* failed read, the quit key or an interrupt
C2_AnalysisFailureContained ==
    /\ g.exitCause \in {"none", "openfail"} \cup SessionEnds
    /\ exc \in {"none", "KeyboardInterrupt"}
    /\ (Failed(g.outcome) /\ g.exitCause = "none") =>
          /\ pc \in {"speak_error", "imshow", "waitKey", "speak_quit", "read", "check"}
          /\ g.spokenSince = (IF pc = "speak_error" THEN 0 ELSE 1)
          /\ (pc = "imshow" /\ said # NoPhrase) => said = ErrorPhrase

\* the loop reads the next frame after an analysis that failed in the remote call
C2_Witness ==
    /\ pc = "read"
    /\ g.outcome = "api_error"
    /\ g.exitCause = "none"
    /\ cap = "open"

\* C3: when start() ends by the quit key, a failed read or an interrupt after
\* the camera handle was created, the camera was released, the display closed
\* and the shutdown banner printed
C3_EveryExitCleansUp ==
    (pc = "ended" /\ g.handleMade /\ g.exitCause \in SessionEnds) =>
        (g.releases = 1 /\ g.destroys = 1 /\ g.banners = 1)

\* C4: once the quit key was seen, start() ends with the camera and the display
\* each released exactly once, and neither is ever released twice
C4_QuitCleansExactlyOnce ==
    /\ g.cleanups <= 1 /\ g.releases <= 1 /\ g.destroys <= 1
    /\ (pc = "ended" /\ g.quitSeen) =>
          (g.cleanups = 1 /\ g.releases = 1 /\ g.destroys = 1)

\* C5 as stated: once cleanup() has run, the instance never again stands past
\* the construction of a camera handle
C5_StoppedIsTerminal ==
    g.everCleaned => pc \notin ((PreTryPcs \ {"open"}) \cup TryPcs)

\* C5 amended: main() never calls start() a second time, so a call of start()
\* that follows a cleanup() is made by some other caller; nothing in start()
\* refuses it
C5_OnlyMainStartsOnce ==
    (g.everCleaned /\ pc \in StartPcs) => caller = "other"

\* the instance is in the Running loop again, camera open, after a cleanup()
C5_Witness ==
    /\ g.everCleaned
    /\ pc = "read"
    /\ cap = "open"
    /\ runs = 2

\* C6: analyze_frame returns the sentinel for an absent or empty text, and the
\* text trimmed at both ends otherwise; it raises in neither case
C6_SentinelOrTrimmed ==
    pc = "speak_result" =>
        /\ g.outcome = "ok"
        /\ exc = "none"
        /\ IF ~response.hasText \/ response.text = <<>>
             THEN result = Sentinel
             ELSE result.kind = "text" /\ IsTrimOf(result.body, response.text)

\* a response whose text is present and empty gives the sentinel
C6_Witness ==
    /\ pc = "speak_result"
    /\ response.hasText
    /\ response.text = <<>>
    /\ result = Sentinel

\* C7: a frame that does not encode makes analyze_frame raise the encoding
\* error with no remote call; a call is issued only for an encoded frame, and
\* at most one per analyze_frame call
C7_NoRemoteCallWithoutEncode ==
    /\ g.callRemote <= 1
    /\ pc \in {"remote", "await"} => frame = "good"
    /\ g.callRemote = 1 => frame = "good" \/ pc \notin AnalysisPcs
    /\ (frame = "bad" /\ pc \in AnalysisPcs \ {"encode"}) =>
          /\ pc = "speak_error"
          /\ g.outcome = "encode_error"
          /\ g.callRemote = 0
          /\ inflight = 0

\* the encoding error of a bad frame has reached _analyze_and_speak
C7_Witness ==
    /\ pc = "speak_error"
    /\ frame = "bad"
    /\ g.outcome = "encode_error"
    /\ g.callRemote = 0

\* C8: with the engine unavailable a speak call only prints; with the engine
\* available a playback failure is caught; speak never raises
C8_SpeakNeverRaises ==
    /\ playback # "raised"
    /\ ~enabled => playback \in {"none", "console_only"}
    /\ said # NoPhrase => playback \in {"console_only", "played", "caught"}
    /\ playback = "caught" => enabled

\* an analysis result printed without playback by a Speaker whose engine failed
C8_Witness ==
    /\ "Speaker" \in built
    /\ ~enabled
    /\ said.kind = "text"
    /\ playback = "console_only"

\* C9: without a credential the process stops at the module-level check:
\* nothing is constructed, no camera handle exists, no frame was read and no
\* remote call was made
C9_NoCredentialNoStart ==
    (pc # "module" /\ API_KEY \in {"unset", ""}) =>
        /\ pc = "cred_error"
        /\ built = {}
        /\ cap = "none"
        /\ runs = 0
        /\ frame = "none"
        /\ inflight = 0
        /\ g = FreshRun(NoHistory)

\* the three variables are all empty (or the last one is) and the process stopped
C9_Witness ==
    /\ pc = "cred_error"
    /\ API_KEY = ""

\* C10: at most one request is in flight; when a frame is read or a dispatch
\* is made, every earlier dispatch has finished and has been followed by
\* exactly one phrase, the result or the error phrase
C10_OneRequestOnePhrase ==
    /\ inflight <= 1
    /\ inflight = 1 => pc = "await"
    /\ (pc \in {"read", "check"} /\ g.outcome # "none") =>
          /\ g.outcome = "ok" \/ Failed(g.outcome)
          /\ g.spokenSince = 1
    /\ (pc = "imshow" /\ said # NoPhrase) =>
          /\ g.spokenSince = 1
          /\ IF g.outcome = "ok" THEN said.kind \in {"text", "sentinel"}
                                 ELSE said = ErrorPhrase

\* the next frame is read after a dispatch that succeeded and was spoken
C10_Witness ==
    /\ pc = "read"
    /\ g.outcome = "ok"
    /\ g.spokenSince = 1
    /\ inflight = 0
====
